---- MODULE Spec2Model ----
(***************************************************************************)
(* Model of the RadarBlip server: the Ping store and its four HTTP         *)
(* handlers (ping.controller), the block list (user.controller), the       *)
(* socket presence registry and the socket events (socketService), and     *)
(* the radar routes with the location middleware (radar.controller,        *)
(* middleware/location).                                                   *)
(*                                                                         *)
(* The server is a single Node.js process: a handler runs without          *)
(* interruption between two awaits, and every `await` of a store           *)
(* operation is a point where other handlers, the clock and MongoDB's TTL  *)
(* monitor may run.  A handler is therefore a chain of actions, one per    *)
(* awaited store operation, each applying the operation together with the  *)
(* synchronous code that follows it.  Two steps are taken together only    *)
(* where nothing can tell them apart: the arrival of a request with its    *)
(* first read (respond, cancel, list), and sendPing's two reads of the     *)
(* block lists, which only ever grow.  respondToPing keeps its read and    *)
(* its tests apart, since the expiry test reads the clock.                 *)
(***************************************************************************)
EXTENDS Integers, Sequences, FiniteSets, TLC

\* ---------------------------------------------------------------- bounds
MaxReqs == 3       \* HTTP requests issued in one behaviour of SpecPing
FewReqs == 2       \* HTTP requests issued in one behaviour of SpecPingFew
MaxTime == 2       \* last value of the wall clock

\* ------------------------------------------------------ program constants
\* part_004:88  expiresAt = Date.now() + 5 * 60 * 1000: one clock tick is 5 minutes
PING_TTL == 1

\* Two accounts: every handler of the Ping routes reads and writes the
\* documents of one pair of users.
Users == {1, 2}
\* The registered accounts: the pair, and a third account that the radar
\* routes need (a requester and two candidates).
Members == Users \cup {3}
ReqIds == 1..MaxReqs
NoDate == -1       \* an unset Date field (respondedAt)

Terminal == {"accepted", "declined", "expired"}

VARIABLES
  now,        \* wall clock (new Date(), Date.now())
  pings,      \* the Ping collection: _id -> document
  blocked,    \* User.blockedUsers: user -> set of users
  reqs,       \* in-flight and finished HTTP requests: slot -> request
  quota       \* how many HTTP requests the clients issue

pvars == <<now, pings, blocked, reqs, quota>>

VARIABLES
  sock,            \* socket handle -> [user, st]: the socket.io connections
  connectedUsers,  \* the Map connectedUsers: user -> socket id (0: no entry)
  isOnline,        \* User.isOnline in the store
  timer            \* socket handle -> its disconnect handler's setTimeout

rvars == <<sock, connectedUsers, isOnline, timer>>

VARIABLES
  location,    \* User.location: user -> coordinates and lastUpdated
  lastActive,  \* User.lastActive
  lreqs        \* requests of the radar routes and location events: slot -> request

lvars == <<location, lastActive, lreqs>>

VARIABLES
  chats,       \* the Chat collection: _id -> participants
  joined,      \* socket handle -> the chats whose room `chat:<id>` it has joined
  event        \* the event of a client that is being handled, or was handled last

evars == <<chats, joined, event>>

VARIABLE seats \* how many socket connections the clients open

vars == <<pvars, rvars, lvars, evars, seats>>

\* What the handlers of the Ping routes leave alone, what the connection
\* handlers of the socket service leave alone, what the radar routes leave
\* alone, and what the event handlers of the socket service leave alone.
PingFrame == UNCHANGED <<rvars, lvars, evars, seats>>

SocketFrame == UNCHANGED <<pvars, lvars, evars, seats>>

RadarFrame == UNCHANGED <<pvars, sock, connectedUsers, timer, evars, seats>>

RouterFrame == UNCHANGED <<pvars, rvars, lvars, seats>>

\* ------------------------------------------------------------- documents
NoDoc == [sender |-> 0, recipient |-> 0, status |-> "none",
          createdAt |-> NoDate, expiresAt |-> NoDate, respondedAt |-> NoDate]

\* A request slot that has not been used yet.  op, user, target, accept are
\* the request; pc, doc, result, listed are the handler's position, the
\* document it holds and its answer.  The other fields record what held when
\* the handler ran and are never read by it: blk0, dup0 (a block, a pending
\* ping between the pair, when the call arrived), dupf (a pending ping between
\* the pair when the duplicate query ran), saw (the status read by findById),
\* late (expiresAt had passed when the handler tested the document), made (the
\* id created), post (the stored document right after the handler's write).
\* said is the status named in the answer `Ping already ...`.  param is the
\* path parameter of sendPing as the client wrote it; target is the user it
\* names.
Idle == [op |-> "none", pc |-> "idle", user |-> 0, target |-> 0, accept |-> FALSE,
         param |-> <<0, "lower">>,
         doc |-> NoDoc, result |-> "none", listed |-> {}, said |-> "none",
         blk0 |-> FALSE, dup0 |-> FALSE, dupf |-> FALSE, saw |-> "none",
         late |-> FALSE, made |-> 0, post |-> NoDoc]

\* I1's relation: a stored pending ping between a and b, in either direction.
PendingBetween(store, a, b) ==
  \E i \in DOMAIN store : /\ store[i].status = "pending"
                          /\ {store[i].sender, store[i].recipient} = {a, b}

\* Mongoose's Array.includes on blockedUsers (casts the id, then indexOf).
Includes(list, id) == id \in list

\* A duplicate query that looks in the caller's direction only.
ExistingPingOneWay(store, me, target) ==
  {i \in DOMAIN store : store[i].sender = me /\ store[i].recipient = target
                        /\ store[i].status = "pending"}

\* The filter of Ping.findOne in sendPing: a pending ping in either direction.
ExistingPing(store, me, target) ==
  {i \in DOMAIN store :
     \/ store[i].sender = me /\ store[i].recipient = target /\ store[i].status = "pending"
     \/ store[i].sender = target /\ store[i].recipient = me /\ store[i].status = "pending"}

\* A block test that reads the caller's list only.
IsBlockedOneWay(curList, tgtBlocksMe, target) == Includes(curList, target)

\* sendPing's two block tests (current user's list, then the target's list).
IsBlocked(curList, tgtBlocksMe, target) ==
  Includes(curList, target) \/ tgtBlocksMe

\* respondToPing: ping.expiresAt < new Date()
HasExpired(p, t) == p.expiresAt < t

Remove(store, id) == [i \in (DOMAIN store) \ {id} |-> store[i]]

Put(store, id, d) == [i \in (DOMAIN store) \cup {id} |-> IF i = id THEN d ELSE store[i]]

\* ------------------------------------------------------------------ Init
PInitWith(n) ==
  /\ now = 0
  /\ pings = <<>>
  /\ blocked = [u \in Members |-> {}]
  /\ reqs = [r \in ReqIds |-> Idle]
  /\ quota = n

PInit == PInitWith(MaxReqs)

\* A request may be issued in slot r when every lower slot has been used.
CanStart(r) ==
  /\ r <= quota
  /\ reqs[r].pc = "idle"
  /\ \A q \in ReqIds : q < r => reqs[q].pc # "idle"

Set(r, rec) == reqs' = [reqs EXCEPT ![r] = rec]

Finish(r, res) == Set(r, [reqs[r] EXCEPT !.pc = "done", !.result = res])

\* ------------------------------------------------------------ the clock
Tick ==
  /\ now < MaxTime
  /\ now' = now + 1
  /\ UNCHANGED <<pings, blocked, reqs, quota>> /\ PingFrame

\* MongoDB's TTL monitor on index {expiresAt: 1}, expireAfterSeconds 0:
\* a document whose expiresAt has passed is deleted, at a time of its choosing.
TTLMonitor ==
  \E id \in DOMAIN pings :
    /\ pings[id].expiresAt < now
    /\ pings' = Remove(pings, id)
    /\ UNCHANGED <<now, blocked, reqs, quota>> /\ PingFrame

\* --------------------------------------------------------------- blockUser
\* user.controller blockUser: rejects a self block and a repeated block,
\* otherwise pushes the target on the caller's blockedUsers and saves.
blockUser ==
  \E a \in Users, b \in Users :
    /\ a # b
    /\ ~Includes(blocked[a], b)
    /\ blocked' = [blocked EXCEPT ![a] = @ \cup {b}]
    /\ UNCHANGED <<now, pings, reqs, quota>> /\ PingFrame

\* ---------------------------------------------------------------- sendPing
\* An ObjectId is written as 24 hexadecimal digits, and a string of them is
\* cast to the same id whether its letters a-f are written in lower or in upper
\* case.  The id of user 1 has such letters; the id of user 2 has digits only.
Spellings(u) == IF u = 1 THEN {<<u, "lower">>, <<u, "upper">>} ELSE {<<u, "lower">>}

\* ObjectId.toString(): the lower-case spelling.
toHexString(u) == <<u, "lower">>

\* The cast of a string to an ObjectId (findById, findOne, create).
CastId(str) == str[1]

\* The self-target test of sendPing: targetUserId === req.user._id.toString().
IsSelf(str, me) == str = toHexString(me)

\* POST /api/pings/:userId arrives.  blk0 and dup0 record what held at the
\* time of the call (they are not read by the handler).
sendStart ==
  \E r \in ReqIds, a \in Users, b \in Users : \E str \in Spellings(b) :
    /\ CanStart(r)
    /\ Set(r, [Idle EXCEPT !.op = "send", !.pc = "s_users", !.user = a,
                           !.param = str, !.target = CastId(str),
                           !.blk0 = (b \in blocked[a] \/ a \in blocked[b]),
                           !.dup0 = PendingBetween(pings, a, b)])
    /\ UNCHANGED <<now, pings, blocked, quota>> /\ PingFrame

\* await User.findById(targetUserId) and the self-target test, then
\* await User.findById(req.user._id) and the two block tests.  Block lists
\* only grow and nothing else reads them, so the two reads are taken together.
\* The string of the path parameter is not compared again: what follows casts it.
sendFindUsers ==
  \E r \in ReqIds :
    /\ reqs[r].pc = "s_users"
    /\ IF IsSelf(reqs[r].param, reqs[r].user)
         THEN Finish(r, "SelfTarget")
       ELSE IF IsBlocked(blocked[reqs[r].user],
                         Includes(blocked[reqs[r].target], reqs[r].user), reqs[r].target)
         THEN Set(r, [reqs[r] EXCEPT !.pc = "done", !.result = "Blocked",
                        !.param = Idle.param])
       ELSE Set(r, [reqs[r] EXCEPT !.pc = "s_find", !.param = Idle.param])
    /\ UNCHANGED <<now, pings, blocked, quota>> /\ PingFrame

\* await Ping.findOne({$or: ...}), then the duplicate test; the new document's
\* dates are taken here, before Ping.create is awaited.
sendFindOne ==
  \E r \in ReqIds :
    /\ reqs[r].pc = "s_find"
    /\ IF ExistingPing(pings, reqs[r].user, reqs[r].target) # {}
         THEN Set(r, [reqs[r] EXCEPT !.pc = "done", !.result = "DuplicateActive",
                        !.dupf = PendingBetween(pings, reqs[r].user, reqs[r].target)])
         ELSE Set(r, [reqs[r] EXCEPT !.pc = "s_create",
                        !.dupf = PendingBetween(pings, reqs[r].user, reqs[r].target),
                        !.doc = [sender |-> reqs[r].user, recipient |-> reqs[r].target,
                                 status |-> "pending", createdAt |-> now,
                                 expiresAt |-> now + PING_TTL, respondedAt |-> NoDate]])
    /\ UNCHANGED <<now, pings, blocked, quota>> /\ PingFrame

\* await Ping.create(...): the insert; the new _id is that of the request.
sendCreate ==
  \E r \in ReqIds :
    /\ reqs[r].pc = "s_create"
    /\ pings' = Put(pings, r, reqs[r].doc)
    /\ Set(r, [reqs[r] EXCEPT !.pc = "done", !.result = "Created", !.made = r])
    /\ UNCHANGED <<now, blocked, quota>> /\ PingFrame

\* ----------------------------------------------------------- respondToPing
\* Ids a client can name: those of pings that some request has created.
KnownIds == {q \in ReqIds : reqs[q].made = q}

\* POST /api/pings/:pingId/respond arrives; await Ping.findById(pingId):
\* 404 when there is no such document.
respondFind ==
  \E r \in ReqIds, u \in Users, id \in KnownIds, acc \in BOOLEAN :
    /\ CanStart(r)
    /\ LET q == [Idle EXCEPT !.op = "respond", !.user = u, !.target = id, !.accept = acc] IN
       IF id \notin DOMAIN pings
         THEN Set(r, [q EXCEPT !.pc = "done", !.result = "NotFound"])
         ELSE Set(r, [q EXCEPT !.pc = "r_check", !.doc = pings[id],
                               !.saw = pings[id].status])
    /\ UNCHANGED <<now, pings, blocked, quota>> /\ PingFrame

\* A recipient test that lets either party of the ping through.
IsParty(d, me) == d.recipient = me \/ d.sender = me

\* respondToPing: ping.recipient.toString() === req.user._id.toString()
IsRecipient(d, me) == d.recipient = me

\* A status test that stops at expired pings only.
IsNotExpired(d) == d.status # "expired"

\* respondToPing: ping.status === 'pending'
IsPending(d) == d.status = "pending"

\* The tests on the document read, in source order: recipient, status, expiry;
\* then the in-memory update whose save is awaited next.
respondCheck ==
  \E r \in ReqIds :
    /\ reqs[r].pc = "r_check"
    /\ LET d == reqs[r].doc IN
       IF ~IsRecipient(d, reqs[r].user)
         THEN Finish(r, "Forbidden")
       ELSE IF ~IsPending(d)
         THEN Set(r, [reqs[r] EXCEPT !.pc = "done", !.result = "AlreadyResolved",
                                     !.said = d.status])
       ELSE IF HasExpired(d, now)
         THEN Set(r, [reqs[r] EXCEPT !.pc = "r_saveExpired", !.late = TRUE,
                                     !.doc = [d EXCEPT !.status = "expired"]])
       ELSE Set(r, [reqs[r] EXCEPT !.pc = "r_save",
                      !.doc = [d EXCEPT !.status = IF reqs[r].accept THEN "accepted"
                                                                      ELSE "declined",
                                        !.respondedAt = now]])
    /\ UNCHANGED <<now, pings, blocked, quota>> /\ PingFrame

\* The document stored under id, NoDoc when there is none.
Stored(store, id) == IF id \in DOMAIN store THEN store[id] ELSE NoDoc

\* await ping.save() on the expired branch: $set {status} on the stored
\* document; the save throws when the document is gone (caught: 500).
respondSaveExpired ==
  \E r \in ReqIds :
    /\ reqs[r].pc = "r_saveExpired"
    /\ LET id == reqs[r].target IN
       IF id \in DOMAIN pings
         THEN /\ pings' = [pings EXCEPT ![id].status = reqs[r].doc.status]
              /\ Set(r, [reqs[r] EXCEPT !.pc = "done", !.result = "Expired",
                                        !.post = Stored(pings', id)])
         ELSE /\ pings' = pings
              /\ Set(r, [reqs[r] EXCEPT !.pc = "done", !.result = "Error"])
    /\ UNCHANGED <<now, blocked, quota>> /\ PingFrame

\* await ping.save() on the decision branch: $set {status, respondedAt}.
respondSave ==
  \E r \in ReqIds :
    /\ reqs[r].pc = "r_save"
    /\ LET id == reqs[r].target IN
       IF id \in DOMAIN pings
         THEN /\ pings' = [pings EXCEPT ![id].status = reqs[r].doc.status,
                                        ![id].respondedAt = reqs[r].doc.respondedAt]
              /\ Set(r, [reqs[r] EXCEPT !.pc = "done", !.result = "Ok",
                                        !.post = Stored(pings', id)])
         ELSE /\ pings' = pings
              /\ Set(r, [reqs[r] EXCEPT !.pc = "done", !.result = "Error"])
    /\ UNCHANGED <<now, blocked, quota>> /\ PingFrame

\* ---------------------------------------------------------------- getPings
\* The filter of getPings, {$or: [{sender: me}, {receiver: me}]}: stored
\* documents have the field recipient and no field receiver.
MatchesGetPings(d, me) == d.sender = me

\* GET /api/pings: await Ping.find(...).populate(...).sort('-createdAt').
\* The matched documents are returned as stored; a failing query is caught and
\* answered 500.  late records, for each document returned, whether its
\* expiresAt had passed when the request was served.
getPings ==
  \E r \in ReqIds, u \in Users :
    /\ CanStart(r)
    /\ LET q == [Idle EXCEPT !.op = "list", !.user = u, !.pc = "done"] IN
       \/ Set(r, [q EXCEPT !.result = "Ok",
                    !.listed = {[id |-> i, status |-> pings[i].status,
                                 late |-> HasExpired(pings[i], now)] :
                                i \in {j \in DOMAIN pings : MatchesGetPings(pings[j], u)}}])
       \/ Set(r, [q EXCEPT !.result = "Error"])
    /\ UNCHANGED <<now, pings, blocked, quota>> /\ PingFrame

\* -------------------------------------------------------------- deletePing
\* The authorisation test of deletePing: the caller is the sender.
MayDelete(d, me, t) == d.sender = me

\* DELETE /api/pings/:id arrives; await Ping.findById(req.params.id), then
\* the sender test.
deletePingFind ==
  \E r \in ReqIds, u \in Users, id \in KnownIds :
    /\ CanStart(r)
    /\ LET q == [Idle EXCEPT !.op = "cancel", !.user = u, !.target = id] IN
       IF id \notin DOMAIN pings
         THEN Set(r, [q EXCEPT !.pc = "done", !.result = "NotFound"])
       ELSE IF ~MayDelete(pings[id], u, now)
         THEN Set(r, [q EXCEPT !.pc = "done", !.result = "Forbidden", !.doc = pings[id],
                               !.saw = pings[id].status,
                               !.late = HasExpired(pings[id], now), !.post = pings[id]])
       ELSE Set(r, [q EXCEPT !.pc = "c_delete", !.doc = pings[id],
                             !.saw = pings[id].status,
                             !.late = HasExpired(pings[id], now)])
    /\ UNCHANGED <<now, pings, blocked, quota>> /\ PingFrame

\* await ping.deleteOne(): removes the document if it is still there.
deletePingDelete ==
  \E r \in ReqIds :
    /\ reqs[r].pc = "c_delete"
    /\ pings' = Remove(pings, reqs[r].target)
    /\ Set(r, [reqs[r] EXCEPT !.pc = "done", !.result = "Deleted"])
    /\ UNCHANGED <<now, blocked, quota>> /\ PingFrame

\* ---------------------------------------------------------- socketService
\* Socket handles are issued in order; a handle is used for one connection.
MaxSockets == 3
Handles == 1..MaxSockets

\* user.routes.ts:188  setTimeout(..., 10000): one timer tick is 5 seconds
OFFLINE_DELAY == 2

NoSock == [user |-> 0, st |-> "none"]
\* reg records whether the user had an entry in connectedUsers when the
\* callback ran; cur whether the socket that disconnected was the one the Map
\* held for its user; recon whether the user has connected since (cur and
\* recon are kept while the timer is pending).
NoTimer == [st |-> "none", left |-> 0, reg |-> FALSE, recon |-> FALSE, cur |-> FALSE]

RInitWith(n) ==
  /\ sock = [h \in Handles |-> NoSock]
  /\ connectedUsers = [u \in Members |-> 0]
  /\ isOnline = [u \in Members |-> FALSE]
  /\ timer = [h \in Handles |-> NoTimer]
  /\ seats = n

RInit == RInitWith(MaxSockets)

\* ------------------------------------------------------------ radar: data
MaxLocReqs == 1    \* requests of the radar routes issued in one behaviour
LReqIds == 1..MaxLocReqs

\* radar.controller.ts:9  MAX_RADIUS = 10 (km): one unit of distance is 5 km
MAX_RADIUS == 2

\* middleware/location: longitude within [-180, 180], latitude within
\* [-90, 90]; one unit of a coordinate is 0.045 degree, 5 km on the equator.
LON_MAX == 4000

LAT_MAX == 2000

\* A User.location without a pair of coordinates (what getNearbyUsers tests
\* for), and the value of a field of a request that is not filled in.
NoLoc == [set |-> FALSE, lon |-> 0, lat |-> 0, at |-> NoDate]

\* The location of an account as register creates it (and as the schema
\* defaults it): coordinates [0, 0], lastUpdated the time of creation.  The
\* accounts of the model are created at time 0.
AtRegister == [set |-> TRUE, lon |-> 0, lat |-> 0, at |-> 0]

\* A request body without coordinates.
NoBody == [set |-> FALSE, lon |-> 0, lat |-> 0]

Point(x, y) == [set |-> TRUE, lon |-> x, lat |-> y]

\* Positions the clients report: three points 5 km apart on one parallel
\* next to the equator, and two pairs that are off the map.
Places == {Point(x, 1) : x \in 1..3}

OffMap == {Point(LON_MAX + 1, 1), Point(1, LAT_MAX + 1)}

\* What a request to GET /api/radar/nearby may carry in its body.
Bodies == {NoBody, Point(2, 1)} \cup OffMap

\* The value of `range` (the parsed query parameter, else the stored setting).
Ranges == 0..(MAX_RADIUS + 1)

\* A slot of lreqs that has not been used yet.  op, user, body, range are
\* the request; pc, here (the requester's coordinates as read), result, data
\* are the handler's position and its answer.  The other fields record what
\* held when the handler ran and are never read by it: mw (what the location
\* middleware did), blk (the users in a block relation with the requester
\* when the query ran), prev and post (the caller's stored location before
\* and after the handler's write).
LIdle == [op |-> "none", pc |-> "idle", user |-> 0, body |-> NoBody, range |-> 0,
          here |-> NoLoc, result |-> "none", data |-> <<>>,
          mw |-> "none", blk |-> {}, prev |-> NoLoc, post |-> NoLoc]

\* Every account is as register created it; no radar request has been made.
LInit ==
  /\ location = [u \in Members |-> AtRegister]
  /\ lastActive = [u \in Members |-> 0]
  /\ lreqs = [r \in LReqIds |-> LIdle]

\* --------------------------------------------------------- events: data
FewSockets == 2    \* socket connections opened in one behaviour of SpecRouter

\* No event has been handled yet.  kind, from (the emitting
\* socket), chat, to (the user named in the payload), ping and response (the
\* pingId and the response of a ping_response) are the event; pc is the
\* handler's position; got are the sockets the handler emitted new_message
\* to, personal the sockets it emitted an event of a personal room to.  The
\* other fields record what held when the handler emitted and are never read
\* by it: room (the sockets in the chat room), inroom (the sockets in the
\* chat room at the time of the notifications), regd (the users with an entry
\* in connectedUsers), lives (the users whose entry names an open socket).
EIdle == [kind |-> "none", pc |-> "idle", from |-> 0, chat |-> 0, to |-> 0,
          ping |-> 0, response |-> "none",
          got |-> {}, personal |-> {},
          room |-> {}, inroom |-> {}, regd |-> {}, lives |-> {}]

\* No chat is stored, no room is joined, no event has been sent.
EInit ==
  /\ chats = <<>>
  /\ joined = [h \in Handles |-> {}]
  /\ event = EIdle

Init == PInit /\ RInit /\ LInit /\ EInit

\* connectedUsers.has(userId)
Has(map, u) == map[u] # 0

\* io.use(...): the token is verified and the user is stored as online;
\* the 'connection' event follows.
socketAuth ==
  \E h \in Handles, u \in Users :
    /\ h <= seats
    /\ sock[h].st = "none"
    /\ \A g \in Handles : g < h => sock[g].st # "none"
    /\ sock' = [sock EXCEPT ![h] = [user |-> u, st |-> "authed"]]
    /\ isOnline' = [isOnline EXCEPT ![u] = TRUE]
    /\ UNCHANGED <<connectedUsers, timer>> /\ SocketFrame

\* io.on('connection'): connectedUsers.set(socket.userId, socket.id).  No
\* timer is cleared; recon notes, on every timer of the user that is pending,
\* that the user has connected since.
socketConnection ==
  \E h \in Handles :
    /\ sock[h].st = "authed"
    /\ sock' = [sock EXCEPT ![h].st = "open"]
    /\ connectedUsers' = [connectedUsers EXCEPT ![sock[h].user] = h]
    /\ timer' = [g \in Handles |->
                   IF timer[g].st = "armed" /\ sock[g].user = sock[h].user
                     THEN [timer[g] EXCEPT !.recon = TRUE]
                     ELSE timer[g]]
    /\ UNCHANGED isOnline /\ SocketFrame

\* What the disconnect handler does to the Map: connectedUsers.delete(userId).
AfterDisconnect(map, u, h) == [map EXCEPT ![u] = 0]

\* socket.on('disconnect'): the entry is deleted and the offline timer set;
\* the socket has left every room it had joined.
socketDisconnect ==
  \E h \in Handles :
    /\ sock[h].st = "open"
    /\ sock' = [sock EXCEPT ![h].st = "closed"]
    /\ connectedUsers' = AfterDisconnect(connectedUsers, sock[h].user, h)
    /\ timer' = [timer EXCEPT ![h] = [st |-> "armed", left |-> OFFLINE_DELAY,
                                      reg |-> FALSE, recon |-> FALSE,
                                      cur |-> (connectedUsers[sock[h].user] = h)]]
    /\ joined' = [joined EXCEPT ![h] = {}]
    /\ UNCHANGED <<isOnline, chats, event>> /\ UNCHANGED <<pvars, lvars, seats>>

\* Five seconds pass: every armed timer comes closer; a timer that is due
\* runs before more time passes.
timerTick ==
  /\ \E h \in Handles : timer[h].st = "armed"
  /\ \A h \in Handles : timer[h].st = "armed" => timer[h].left > 0
  /\ timer' = [h \in Handles |->
                 IF timer[h].st = "armed" THEN [timer[h] EXCEPT !.left = @ - 1]
                                          ELSE timer[h]]
  /\ UNCHANGED <<sock, connectedUsers, isOnline>> /\ SocketFrame

\* A callback that does not look at the registry.
FiresAlways(map, u) == TRUE

\* The timer callback's test: only update if still disconnected.
StillDisconnected(map, u) == ~Has(map, u)

\* The callback runs: when the user has no entry it issues the update
\* {isOnline: false} and awaits it.
timerFire ==
  \E h \in Handles :
    /\ timer[h].st = "armed" /\ timer[h].left = 0
    /\ timer' = [timer EXCEPT ![h] =
                   [NoTimer EXCEPT !.st = IF StillDisconnected(connectedUsers, sock[h].user)
                                            THEN "writing" ELSE "skipped",
                                   !.reg = Has(connectedUsers, sock[h].user)]]
    /\ UNCHANGED <<sock, connectedUsers, isOnline>> /\ SocketFrame

\* await User.findByIdAndUpdate(socket.userId, {isOnline: false}).
timerWrite ==
  \E h \in Handles :
    /\ timer[h].st = "writing"
    /\ timer' = [timer EXCEPT ![h].st = "wrote"]
    /\ isOnline' = [isOnline EXCEPT ![sock[h].user] = FALSE]
    /\ UNCHANGED <<sock, connectedUsers>> /\ SocketFrame

\* auth.controller login: user.isOnline = true; save.
login ==
  \E u \in Users :
    /\ ~isOnline[u]
    /\ isOnline' = [isOnline EXCEPT ![u] = TRUE]
    /\ UNCHANGED <<sock, connectedUsers, timer>> /\ SocketFrame

\* auth.controller logout: findByIdAndUpdate(req.user._id, {isOnline: false}).
logout ==
  \E u \in Users :
    /\ isOnline[u]
    /\ isOnline' = [isOnline EXCEPT ![u] = FALSE]
    /\ UNCHANGED <<sock, connectedUsers, timer>> /\ SocketFrame

RNext ==
  \/ socketAuth \/ socketConnection \/ socketDisconnect
  \/ timerTick \/ timerFire \/ timerWrite
  \/ login \/ logout

SpecSocket == Init /\ [][RNext]_vars

\* ------------------------------------------------------- the Ping system
\* The clock, the store's TTL monitor and the handlers of the ping routes.
PingRoutes ==
  \/ Tick \/ TTLMonitor
  \/ sendStart \/ sendFindUsers \/ sendFindOne \/ sendCreate
  \/ respondFind \/ respondCheck \/ respondSaveExpired \/ respondSave
  \/ getPings
  \/ deletePingFind \/ deletePingDelete

\* The same with the route that blocks a user.
PNext == PingRoutes \/ blockUser

SpecPing == Init /\ [][PNext]_vars

\* The same system with fewer requests issued.
InitFew == PInitWith(FewReqs) /\ RInit /\ LInit /\ EInit

SpecPingFew == InitFew /\ [][PNext]_vars

\* The ping routes after user 1 has sent a ping to user 2 at time 0 (request
\* 1: Created), with a few more requests to come and nobody blocked.
SentDoc == [sender |-> 1, recipient |-> 2, status |-> "pending", createdAt |-> 0,
            expiresAt |-> PING_TTL, respondedAt |-> NoDate]

InitSent ==
  /\ now = 0
  /\ pings = Put(<<>>, 1, SentDoc)
  /\ blocked = [u \in Members |-> {}]
  /\ reqs = [r \in ReqIds |->
               IF r = 1 THEN [Idle EXCEPT !.op = "send", !.pc = "done", !.user = 1,
                                          !.target = 2, !.doc = SentDoc,
                                          !.result = "Created", !.made = 1]
                        ELSE Idle]
  /\ quota = FewReqs + 1
  /\ RInit /\ LInit /\ EInit

SpecPingSent == InitSent /\ [][PingRoutes]_vars

\* ------------------------------------------------------------ radar routes
LCanStart(r) ==
  /\ lreqs[r].pc = "idle"
  /\ \A q \in LReqIds : q < r => lreqs[q].pc # "idle"

LSet(r, rec) == lreqs' = [lreqs EXCEPT ![r] = rec]

LFinish(r, res) == LSet(r, [lreqs[r] EXCEPT !.pc = "done", !.result = res])

\* The stored location after a write of coordinates c at time t
\* ('location.coordinates', 'location.lastUpdated').
Stamp(c, t) == [set |-> TRUE, lon |-> c.lon, lat |-> c.lat, at |-> t]

Abs(x) == IF x < 0 THEN -x ELSE x

\* middleware/location: !longitude || !latitude is false (a zero is falsy).
Carries(b) == b.set /\ b.lon # 0 /\ b.lat # 0

\* middleware/location: isValidLong && isValidLat; also what a 2dsphere index
\* and a $geoWithin query accept as a point.
InRange(c) ==
  /\ c.lon >= -LON_MAX /\ c.lon <= LON_MAX
  /\ c.lat >= -LAT_MAX /\ c.lat <= LAT_MAX

\* calculateDistance (Haversine), in units of 5 km, for two points of the map:
\* along one parallel next to the equator the distance is the difference of
\* longitude; a difference of latitude adds to it.
calculateDistance(a, b) == Abs(b.lon - a.lon) + Abs(b.lat - a.lat)

\* calculateAngle, rounded: due east, due west, and 0 for the same point
\* (atan2(0, 0)); north and south for points of one meridian.
calculateAngle(a, b) ==
  IF b.lon > a.lon THEN 90
  ELSE IF b.lon < a.lon THEN 270
  ELSE IF b.lat < a.lat THEN 180
  ELSE 0

\* getNearbyUsers: !(isNaN(range) || range <= 0 || range > MAX_RADIUS)
ValidRange(rg) == rg > 0 /\ rg <= MAX_RADIUS

\* The filter of User.find in getNearbyUsers: not the requester, a user whose
\* blockedUsers does not hold the requester, coordinates within the sphere cap.
MatchesFind(c, me, here, rg) ==
  /\ c # me
  /\ ~Includes(blocked[c], me)
  /\ location[c].set /\ InRange(location[c])
  /\ calculateDistance(here, location[c]) <= rg

\* The orders in which a find without sort may return the documents S.
Orders(S) ==
  {s \in [1..Cardinality(S) -> S] :
     \A i \in 1..Cardinality(S), j \in 1..Cardinality(S) : i # j => s[i] # s[j]}

\* One element of processedUsers.
Entry(c, here) ==
  [id |-> c, isOnline |-> isOnline[c], lastActive |-> lastActive[c],
   distance |-> calculateDistance(here, location[c]),
   angle |-> calculateAngle(here, location[c])]

\* GET /api/radar/nearby arrives and passes router.use(updateLocation), the
\* location middleware: coordinates in the body that are present and in range
\* are written to the caller's document (with lastActive and isOnline: true);
\* anything else is passed over without an answer.  Then next().
locationMiddleware ==
  \E r \in LReqIds, u \in Members, b \in Bodies, rg \in Ranges :
    /\ LCanStart(r)
    /\ LET q == [LIdle EXCEPT !.op = "nearby", !.pc = "n_user", !.user = u,
                              !.body = b, !.range = rg, !.prev = location[u]] IN
       IF Carries(b) /\ InRange(b)
         THEN /\ location' = [location EXCEPT ![u] = Stamp(b, now)]
              /\ lastActive' = [lastActive EXCEPT ![u] = now]
              /\ isOnline' = [isOnline EXCEPT ![u] = TRUE]
              /\ LSet(r, [q EXCEPT !.mw = "stored", !.post = Stamp(b, now)])
         ELSE /\ UNCHANGED <<location, lastActive, isOnline>>
              /\ LSet(r, [q EXCEPT !.mw = "skipped", !.post = location[u]])
    /\ RadarFrame

\* getNearbyUsers: await User.findById(req.user._id), then the test of the
\* range and the test of the requester's coordinates.
getNearbyFindById ==
  \E r \in LReqIds :
    /\ lreqs[r].pc = "n_user"
    /\ IF ~ValidRange(lreqs[r].range)
         THEN LFinish(r, "InvalidInput")
       ELSE IF ~location[lreqs[r].user].set
         THEN LFinish(r, "LocationUnavailable")
       ELSE LSet(r, [lreqs[r] EXCEPT !.pc = "n_find", !.here = location[lreqs[r].user]])
    /\ UNCHANGED <<location, lastActive, isOnline>> /\ RadarFrame

\* getNearbyUsers: await User.find(...), the filter on blockedUsers, the map
\* to distance and angle, and the answer, in the order the find returned.  A
\* centre that is no point of the sphere makes the query throw (caught: 500).
getNearbyFind ==
  \E r \in LReqIds :
    /\ lreqs[r].pc = "n_find"
    /\ LET me == lreqs[r].user
           here == lreqs[r].here
           nearbyUsers == {c \in Members : MatchesFind(c, me, here, lreqs[r].range)}
           filteredUsers == {c \in nearbyUsers : ~Includes(blocked[c], me)}
           inBlock == {c \in Members : Includes(blocked[c], me) \/ Includes(blocked[me], c)}
       IN IF ~InRange(here)
            THEN LSet(r, [lreqs[r] EXCEPT !.pc = "done", !.result = "Error", !.blk = inBlock])
            ELSE \E order \in Orders(filteredUsers) :
                   LSet(r, [lreqs[r] EXCEPT !.pc = "done", !.result = "Ok", !.blk = inBlock,
                              !.data = [i \in 1..Cardinality(filteredUsers) |->
                                          Entry(order[i], here)]])
    /\ UNCHANGED <<location, lastActive, isOnline>> /\ RadarFrame

\* What POST /api/radar/location and the update_location event may carry.
Coords == Places \cup OffMap

\* POST /api/radar/location (radar.controller updateLocation): a body without
\* a pair of numbers is answered 400; otherwise the pair is assigned as it is,
\* with isOnline and lastActive, and saved.  A pair that is off the map is
\* stored, or refused by the store when location.coordinates carries a
\* 2dsphere index (caught: 500).  findById and save are taken together: the
\* caller's document is always there.
updateLocation ==
  \E r \in LReqIds, u \in Members, c \in Coords \cup {NoBody} :
    /\ LCanStart(r)
    /\ LET q == [LIdle EXCEPT !.op = "location", !.pc = "done", !.user = u,
                              !.body = c, !.prev = location[u]] IN
       \/ /\ ~c.set
          /\ UNCHANGED <<location, lastActive, isOnline>>
          /\ LSet(r, [q EXCEPT !.result = "InvalidInput", !.post = location[u]])
       \/ /\ c.set
          /\ location' = [location EXCEPT ![u] = Stamp(c, now)]
          /\ lastActive' = [lastActive EXCEPT ![u] = now]
          /\ isOnline' = [isOnline EXCEPT ![u] = TRUE]
          /\ LSet(r, [q EXCEPT !.result = "Ok", !.post = Stamp(c, now)])
       \/ /\ c.set /\ ~InRange(c)
          /\ UNCHANGED <<location, lastActive, isOnline>>
          /\ LSet(r, [q EXCEPT !.result = "Error", !.post = location[u]])
    /\ RadarFrame

\* socket.on('update_location') on an open connection: the pair is written as
\* it is, with lastActive; a write the store refuses is logged.  The event has
\* no answer.
socketUpdateLocation ==
  \E r \in LReqIds, h \in Handles, c \in Coords :
    /\ LCanStart(r)
    /\ sock[h].st = "open"
    /\ LET u == sock[h].user
           q == [LIdle EXCEPT !.op = "event", !.pc = "done", !.user = u,
                              !.body = c, !.prev = location[u]] IN
       \/ /\ location' = [location EXCEPT ![u] = Stamp(c, now)]
          /\ lastActive' = [lastActive EXCEPT ![u] = now]
          /\ LSet(r, [q EXCEPT !.result = "Stored", !.post = Stamp(c, now)])
       \/ /\ ~InRange(c)
          /\ UNCHANGED <<location, lastActive>>
          /\ LSet(r, [q EXCEPT !.result = "Logged", !.post = location[u]])
    /\ UNCHANGED isOnline /\ RadarFrame

RadarNext ==
  \/ Tick \/ blockUser
  \/ locationMiddleware \/ getNearbyFindById \/ getNearbyFind
  \/ updateLocation \/ socketUpdateLocation

\* The radar routes are served to three accounts that have reported a
\* position or are as register created them; user 1 holds an open socket
\* connection.  No HTTP request
\* of the Ping routes is issued.
RadarInit ==
  /\ PInitWith(0)
  /\ sock = [h \in Handles |-> IF h = 1 THEN [user |-> 1, st |-> "open"] ELSE NoSock]
  /\ connectedUsers = [u \in Members |-> IF u = 1 THEN 1 ELSE 0]
  /\ isOnline = [u \in Members |-> u = 1]
  /\ timer = [h \in Handles |-> NoTimer]
  /\ seats = 1
  /\ location \in [Members -> {Stamp(c, 0) : c \in Places} \cup {AtRegister}]
  /\ lastActive = [u \in Members |-> 0]
  /\ lreqs = [r \in LReqIds |-> LIdle]
  /\ EInit

SpecRadar == RadarInit /\ [][RadarNext]_vars

\* ------------------------------------------- socketService: the events
\* The handlers of two events write nothing that the other reads, so the
\* events are taken one at a time: a new event is handled when the one before
\* it has been dealt with.
ECanStart == event.pc \in {"idle", "done"}

\* The sockets in the room `user:<u>`: joined on connection, left on disconnect.
UserRoom(u) == {h \in Handles : sock[h].st = "open" /\ sock[h].user = u}

\* The sockets in the room `chat:<c>`: a socket leaves its rooms on disconnect.
ChatRoom(c) == {h \in Handles : sock[h].st = "open" /\ c \in joined[h]}

\* An emit to the whole room, the emitting socket included.
ToAll(room, h) == room

\* socket.to(room).emit: every socket of the room but the emitting one.
To(room, h) == room \ {h}

\* The users with an entry in the Map, and those whose entry names an open socket.
Registered == {u \in Members : connectedUsers[u] # 0}

Live == {u \in Registered : sock[connectedUsers[u]].st = "open"}

\* The chat the clients name.
ChatIds == {1}

\* socket.on('join_chat'): socket.join(`chat:${chatId}`).
joinChat ==
  \E h \in Handles, c \in ChatIds :
    /\ sock[h].st = "open"
    /\ c \notin joined[h]
    /\ joined' = [joined EXCEPT ![h] = @ \cup {c}]
    /\ UNCHANGED <<chats, event>> /\ RouterFrame

\* socket.on('leave_chat'): socket.leave(`chat:${chatId}`).
leaveChat ==
  \E h \in Handles, c \in ChatIds :
    /\ sock[h].st = "open"
    /\ c \in joined[h]
    /\ joined' = [joined EXCEPT ![h] = @ \ {c}]
    /\ UNCHANGED <<chats, event>> /\ RouterFrame

\* socket.on('send_message'): socket.to(`chat:${chatId}`).emit('new_message'),
\* then Chat.findById is awaited.
sendMessageEmit ==
  \E h \in Handles, c \in ChatIds :
    /\ ECanStart
    /\ sock[h].st = "open"
    /\ event' = [EIdle EXCEPT !.kind = "send_message", !.pc = "m_notify", !.from = h,
                              !.chat = c, !.got = To(ChatRoom(c), h),
                              !.room = ChatRoom(c)]
    /\ UNCHANGED <<chats, joined>> /\ RouterFrame

\* An emit to every participant but the sender.
NotifiedAll(participants, me, map) == {p \in participants : p # me}

\* The participants the handler notifies: everyone but the sender who has an
\* entry in connectedUsers.
Notified(participants, me, map) == {p \in participants : p # me /\ Has(map, p)}

\* send_message after Chat.findById: message_notification is emitted to the
\* room `user:<p>` of every participant to notify.
sendMessageNotify ==
  /\ event.pc = "m_notify"
  /\ LET c == event.chat
         me == sock[event.from].user
         targets == IF c \in DOMAIN chats THEN Notified(chats[c], me, connectedUsers)
                                          ELSE {}
     IN event' = [event EXCEPT !.pc = "done",
                    !.personal = UNION {UserRoom(p) : p \in targets},
                    !.inroom = ChatRoom(c), !.regd = Registered, !.lives = Live]
  /\ UNCHANGED <<chats, joined>> /\ RouterFrame

\* An emit to the room of u whatever the Map holds.
PublishAlways(map, u) == UserRoom(u)

\* send_ping and ping_response: if (connectedUsers.has(id)) io.to(`user:${id}`).emit
PublishToUser(map, u) == IF Has(map, u) THEN UserRoom(u) ELSE {}

\* socket.on('send_ping'): incoming_ping is emitted to `user:<receiverId>`
\* when connectedUsers has the receiver.
sendPingEvent ==
  \E h \in Handles, u \in Users :
    /\ ECanStart
    /\ sock[h].st = "open"
    /\ event' = [EIdle EXCEPT !.kind = "send_ping", !.pc = "done", !.from = h, !.to = u,
                   !.personal = PublishToUser(connectedUsers, u),
                   !.regd = Registered, !.lives = Live]
    /\ UNCHANGED <<chats, joined>> /\ RouterFrame

\* The pingId of a ping_response payload: the id of the first ping the store
\* creates, or an id that names no stored ping.
PayloadIds == {1, 2}

\* socket.on('ping_response'): ping_response is emitted to `user:<senderId>`
\* when connectedUsers has the sender of the ping.
pingResponseEvent ==
  \E h \in Handles, u \in Users, id \in PayloadIds, resp \in {"accepted", "declined"} :
    /\ ECanStart
    /\ sock[h].st = "open"
    /\ event' = [EIdle EXCEPT !.kind = "ping_response", !.pc = "done", !.from = h, !.to = u,
                   !.ping = id, !.response = resp,
                   !.personal = PublishToUser(connectedUsers, u),
                   !.regd = Registered, !.lives = Live]
    /\ UNCHANGED <<chats, joined>> /\ RouterFrame

RouterNext ==
  \/ socketAuth \/ socketConnection \/ socketDisconnect
  \/ joinChat \/ leaveChat
  \/ sendMessageEmit \/ sendMessageNotify
  \/ sendPingEvent \/ pingResponseEvent

\* The socket service with one chat in the store, between users 1 and 2 or
\* between users 2 and 3, and a few connections to come.
RouterInit ==
  /\ PInitWith(0) /\ RInitWith(FewSockets) /\ LInit
  /\ chats \in [ChatIds -> {{1, 2}, {2, 3}}]
  /\ joined = [h \in Handles |-> {}]
  /\ event = EIdle

SpecRouter == RouterInit /\ [][RouterNext]_vars

\* --------------------------------------------- the distance on the globe
\* calculateDistance on whole degrees, in fixed point: a sine or a cosine is a
\* number of ten-thousandths.
SCALE == 10000

\* Math.sin of 0, 1, ..., 90 degrees.
SinTable ==
  <<
     0, 175, 349, 523, 698, 872, 1045, 1219, 1392, 1564,
     1736, 1908, 2079, 2250, 2419, 2588, 2756, 2924, 3090, 3256,
     3420, 3584, 3746, 3907, 4067, 4226, 4384, 4540, 4695, 4848,
     5000, 5150, 5299, 5446, 5592, 5736, 5878, 6018, 6157, 6293,
     6428, 6561, 6691, 6820, 6947, 7071, 7193, 7314, 7431, 7547,
     7660, 7771, 7880, 7986, 8090, 8192, 8290, 8387, 8480, 8572,
     8660, 8746, 8829, 8910, 8988, 9063, 9135, 9205, 9272, 9336,
     9397, 9455, 9511, 9563, 9613, 9659, 9703, 9744, 9781, 9816,
     9848, 9877, 9903, 9925, 9945, 9962, 9976, 9986, 9994, 9998,
     10000
  >>

\* Math.sin of d degrees: odd, of period 360, sin(180 - d) = sin(d).
Sin(d) ==
  LET m == d % 360
      h == IF m >= 180 THEN m - 180 ELSE m
      q == IF h > 90 THEN 180 - h ELSE h
      v == SinTable[q + 1]
  IN IF m >= 180 THEN -v ELSE v

\* Math.cos of d degrees.
Cos(d) == Sin(d + 90)

\* The product of two fixed-point numbers, rounded as each product is.
Mul(x, y) == (x * y) \div SCALE

\* The angle of 0..90 degrees that Math.atan2(y, x) returns for y >= 0 and
\* x >= 0, rounded down to a whole degree.
Atan2(y, x) ==
  LET fits == {t \in 0..90 : Sin(t) * x <= Cos(t) * y}
  IN CHOOSE t \in fits : \A o \in fits : o <= t

\* The largest k of lo..hi with k * k <= n, by bisection.
RECURSIVE SqrtIn(_, _, _)
SqrtIn(n, lo, hi) ==
  IF lo = hi THEN lo
  ELSE LET mid == (lo + hi + 1) \div 2
       IN IF mid * mid <= n THEN SqrtIn(n, mid, hi) ELSE SqrtIn(n, lo, mid - 1)

\* Math.sqrt of a fixed-point number of 0..1 (0 for what is below 0).
Sqrt(x) == IF x <= 0 THEN 0 ELSE SqrtIn(x * SCALE, 0, SCALE)

\* Math.sin(h) as a single factor.
SinOnce(h) == Sin(h)

\* Math.sin(h) * Math.sin(h)
SinSquared(h) == Mul(Sin(h), Sin(h))

\* const R = 6371e3, in km.
R == 6371

\* Math.PI, in ten-thousandths.
PI == 31416

\* calculateDistance(lat1, lon1, lat2, lon2) in km, for whole degrees whose
\* differences are even: the Haversine formula as the code writes it.
calculateDistanceOnGlobe(lat1, lon1, lat2, lon2) ==
  LET dphi == lat2 - lat1
      dlam == lon2 - lon1
      a == SinSquared(dphi \div 2)
             + Mul(Mul(Cos(lat1), Cos(lat2)), SinSquared(dlam \div 2))
      c == 2 * Atan2(Sqrt(a), Sqrt(SCALE - a))
  IN (((R * PI) \div 180) * c) \div SCALE

\* Points of the globe 30 degrees apart.
Globe == {Point(30 * x, 30 * y) : x \in (-6)..6, y \in (-3)..3}

\* Two points are given; nothing else has happened.
DistanceInit ==
  /\ PInitWith(0) /\ RInitWith(0) /\ EInit
  /\ location = [u \in Members |-> AtRegister]
  /\ lastActive = [u \in Members |-> 0]
  /\ \E p \in Globe, q \in Globe :
       lreqs = [r \in LReqIds |->
                 IF r = 1 THEN [LIdle EXCEPT !.op = "distance", !.pc = "d_call",
                                             !.body = p, !.here = q]
                          ELSE LIdle]

\* The distance from the first point to the second, from the second to the
\* first, and from the first to itself.
distanceCall ==
  \E r \in LReqIds :
    /\ lreqs[r].pc = "d_call"
    /\ LET p == lreqs[r].body
           q == lreqs[r].here
       IN LSet(r, [lreqs[r] EXCEPT !.pc = "done", !.result = "Ok",
                     !.data = <<calculateDistanceOnGlobe(p.lat, p.lon, q.lat, q.lon),
                                calculateDistanceOnGlobe(q.lat, q.lon, p.lat, p.lon),
                                calculateDistanceOnGlobe(p.lat, p.lon, p.lat, p.lon)>>])
    /\ UNCHANGED <<location, lastActive, isOnline>> /\ RadarFrame

SpecDistance == DistanceInit /\ [][distanceCall]_vars

\* ---------------------------------------------- the bearing on the globe
\* Math.sin of t tenths of a degree, between the whole degrees of SinTable.
SinTenths(t) ==
  LET m == t % 3600
      h == IF m >= 1800 THEN m - 1800 ELSE m
      q == IF h > 900 THEN 1800 - h ELSE h
      d == q \div 10
      lo == SinTable[d + 1]
      hi == IF d = 90 THEN lo ELSE SinTable[d + 2]
      v == lo + ((hi - lo) * (q % 10)) \div 10
  IN IF m >= 1800 THEN -v ELSE v

CosTenths(t) == SinTenths(t + 900)

\* Math.atan2(y, x) in tenths of a degree, within -1800..1800: the angle of
\* the first quadrant for the sizes of y and x (cut to a tenth), placed by
\* the signs; atan2(0, x) is 0 for x >= 0 and 180 degrees for x < 0.
Atan2Tenths(y, x) ==
  LET fits == {t \in 0..900 : SinTenths(t) * Abs(x) <= CosTenths(t) * Abs(y)}
      acute == CHOOSE t \in fits : \A o \in fits : o <= t
  IN IF y = 0 THEN (IF x >= 0 THEN 0 ELSE 1800)
     ELSE IF y > 0 THEN (IF x >= 0 THEN acute ELSE 1800 - acute)
     ELSE (IF x >= 0 THEN -acute ELSE acute - 1800)

\* calculateAngle(lat1, lon1, lat2, lon2) for whole degrees, in tenths of a
\* degree: (atan2(y, x) * 180 / PI + 360) % 360.
calculateAngleOnGlobe(lat1, lon1, lat2, lon2) ==
  LET dlam == lon2 - lon1
      y == Mul(Sin(dlam), Cos(lat2))
      x == Mul(Cos(lat1), Sin(lat2)) - Mul(Mul(Sin(lat1), Cos(lat2)), Cos(dlam))
  IN (Atan2Tenths(y, x) + 3600) % 3600

\* Math.round of a number of tenths: the nearest whole number, a half up.
MathRound(tenths) == (tenths + 5) \div 10

\* Points of the globe 60 degrees of longitude and 30 of latitude apart, and
\* points next to a meridian, close to a pole.
BearingPoints ==
  {Point(60 * x, 30 * y) : x \in (-3)..3, y \in (-3)..3}
    \cup {Point(-1, 80), Point(1, 80), Point(-1, -80), Point(1, -80)}

\* The requester's coordinates and those of a user found are given.
BearingInit ==
  /\ PInitWith(0) /\ RInitWith(0) /\ EInit
  /\ location = [u \in Members |-> AtRegister]
  /\ lastActive = [u \in Members |-> 0]
  /\ \E p \in BearingPoints, q \in BearingPoints :
       lreqs = [r \in LReqIds |->
                 IF r = 1 THEN [LIdle EXCEPT !.op = "angle", !.pc = "a_call",
                                             !.here = p, !.body = q]
                          ELSE LIdle]

\* getNearbyUsers' map: angle = calculateAngle(lat1, lon1, lat2, lon2) from
\* the requester to the user found, answered as Math.round(angle).  data is
\* <<angle in tenths, the value answered>>.
angleCall ==
  \E r \in LReqIds :
    /\ lreqs[r].pc = "a_call"
    /\ LET p == lreqs[r].here
           q == lreqs[r].body
           angle == calculateAngleOnGlobe(p.lat, p.lon, q.lat, q.lon)
       IN LSet(r, [lreqs[r] EXCEPT !.pc = "done", !.result = "Ok",
                     !.data = <<angle, MathRound(angle)>>])
    /\ UNCHANGED <<location, lastActive, isOnline>> /\ RadarFrame

SpecBearing == BearingInit /\ [][angleCall]_vars

\* ------------------------------------------ an event without its payload
\* The events whose listener takes its payload apart before anything else.
Destructuring == {"send_message", "send_ping", "ping_response"}

\* A client emits one of these events with no payload: `const {...} = data`
\* throws a TypeError outside any try block.  In the async listeners
\* (send_message, send_ping) the promise is rejected and nobody handles it, so
\* process.on('unhandledRejection') closes the server and calls
\* process.exit(1); in the listener of ping_response the exception is uncaught
\* and ends the process as well.  pc = "exited" is the process after that.
missingPayload ==
  \E h \in Handles, k \in Destructuring :
    /\ ECanStart
    /\ sock[h].st = "open"
    /\ event' = [EIdle EXCEPT !.kind = k, !.pc = "exited", !.from = h,
                   !.regd = Registered, !.lives = Live]
    /\ UNCHANGED <<chats, joined>>
    /\ RouterFrame

\* A process that has exited takes no further step.
Running == event.pc # "exited"

CrashNext ==
  \/ Running /\ socketAuth
  \/ Running /\ socketConnection
  \/ Running /\ socketDisconnect
  \/ Running /\ joinChat
  \/ Running /\ leaveChat
  \/ Running /\ sendMessageEmit
  \/ Running /\ sendMessageNotify
  \/ Running /\ sendPingEvent
  \/ Running /\ pingResponseEvent
  \/ Running /\ missingPayload

\* The socket service with clients that may also send an event with no payload.
SpecCrash == RouterInit /\ [][CrashNext]_vars

\* ----------------------------------------- the Ping routes and the sockets
\* User 1 has sent a ping to user 2 (request 1: Created); both hold an open
\* socket connection; one more HTTP request is to come.
NotifyInit ==
  /\ now = 0
  /\ pings = Put(<<>>, 1, SentDoc)
  /\ blocked = [u \in Members |-> {}]
  /\ reqs = [r \in ReqIds |->
               IF r = 1 THEN [Idle EXCEPT !.op = "send", !.pc = "done", !.user = 1,
                                          !.target = 2, !.doc = SentDoc,
                                          !.result = "Created", !.made = 1]
                        ELSE Idle]
  /\ quota = 2
  /\ sock = [h \in Handles |-> IF h \in Users THEN [user |-> h, st |-> "open"] ELSE NoSock]
  /\ connectedUsers = [u \in Members |-> IF u \in Users THEN u ELSE 0]
  /\ isOnline = [u \in Members |-> u \in Users]
  /\ timer = [h \in Handles |-> NoTimer]
  /\ seats = 2
  /\ LInit /\ EInit

\* The handlers of the Ping routes, the disconnect of a socket and the
\* send_ping and ping_response events that a client may send.
NotifyNext == PNext \/ socketDisconnect \/ sendPingEvent \/ pingResponseEvent

\* The steps the server takes by itself once a request has arrived.
ServerSteps ==
  \/ sendFindUsers \/ sendFindOne \/ sendCreate
  \/ respondCheck \/ respondSaveExpired \/ respondSave
  \/ deletePingDelete

\* Every handler that has started runs to its end; what the clients send, the
\* clock and the TTL monitor are not under the server's control.
SpecNotify == NotifyInit /\ [][NotifyNext]_vars /\ WF_vars(ServerSteps)

\* ------------------------------------------------------------ chat routes
\* The filter of Chat.findOne in getOrCreateChat:
\* {participants: {$all: [req.user._id, userId]}}.
MatchesChat(participants, me, other) == {me, other} \subseteq participants

\* GET /api/chats/:userId arrives: await User.findById(userId) (every account
\* of the model exists), then await Chat.findOne(...).  A chat that is found
\* is the answer; otherwise Chat.create is awaited next.
getOrCreateFind ==
  \E r \in ReqIds, u \in Users, o \in Members :
    /\ CanStart(r)
    /\ LET q == [Idle EXCEPT !.op = "chat", !.user = u, !.target = o]
           found == {c \in DOMAIN chats : MatchesChat(chats[c], u, o)}
       IN IF found # {}
            THEN \E c \in found : Set(r, [q EXCEPT !.pc = "done", !.result = "Found",
                                                    !.made = c])
            ELSE Set(r, [q EXCEPT !.pc = "g_create"])
    /\ UNCHANGED <<now, pings, blocked, quota, chats, joined, event>>
    /\ UNCHANGED <<rvars, lvars, seats>>

\* await Chat.create({participants: [req.user._id, userId], messages: []}),
\* then the chat is read again and answered; the new _id is that of the request.
getOrCreateCreate ==
  \E r \in ReqIds :
    /\ reqs[r].pc = "g_create"
    /\ chats' = Put(chats, r, {reqs[r].user, reqs[r].target})
    /\ Set(r, [reqs[r] EXCEPT !.pc = "done", !.result = "Created", !.made = r])
    /\ UNCHANGED <<now, pings, blocked, quota, joined, event>>
    /\ UNCHANGED <<rvars, lvars, seats>>

ChatNext == getOrCreateFind \/ getOrCreateCreate

\* The chat routes with no chat stored yet.
SpecChat == Init /\ [][ChatNext]_vars

\* ------------------------------------------------------ the whole server
Next ==
  \/ PNext \/ RNext \/ RadarNext \/ RouterNext \/ missingPayload \/ distanceCall
  \/ ChatNext \/ angleCall

Spec == Init /\ [][Next]_vars

\* ================================================================ claims
SamePair(d, e) == {d.sender, d.recipient} = {e.sender, e.recipient}

Done(r, op) == reqs[r].op = op /\ reqs[r].pc = "done"

\* C1 (I1): in every reachable state at most one Ping with status pending is
\* stored for an unordered pair of users, whatever the interleaving of sends.
C1_AtMostOnePendingPerPair ==
  \A i \in DOMAIN pings, j \in DOMAIN pings :
    (i # j /\ pings[i].status = "pending" /\ pings[j].status = "pending")
      => ~SamePair(pings[i], pings[j])

\* C2: when the recipient's accept and decline both read the same Ping as
\* pending and one of them reports success, the other fails AlreadyResolved
\* and the stored status is the one the successful call set.
C2_ConcurrentRespondOneWinner ==
  \A r1 \in ReqIds, r2 \in ReqIds :
    ( /\ r1 # r2 /\ Done(r1, "respond") /\ Done(r2, "respond")
      /\ reqs[r1].target = reqs[r2].target
      /\ reqs[r1].accept # reqs[r2].accept
      /\ reqs[r1].saw = "pending" /\ reqs[r2].saw = "pending"
      /\ reqs[r2].doc.recipient = reqs[r2].user
      /\ reqs[r1].result = "Ok" )
    => /\ reqs[r2].result = "AlreadyResolved"
       /\ reqs[r1].target \in DOMAIN pings
            => pings[reqs[r1].target].status = reqs[r1].doc.status

\* C3 (I2): a stored status that is accepted, declined or expired is never
\* changed by any step.
C3_TerminalIsFinal ==
  [][\A i \in (DOMAIN pings) \cap (DOMAIN pings') :
        pings[i].status \in Terminal => pings'[i].status = pings[i].status]_vars

\* C4 (I3): getPings never returns a Ping as pending whose expiresAt had passed
\* when the request was served.
C4_ListNeverPendingPastExpiry ==
  \A r \in ReqIds :
    (Done(r, "list") /\ reqs[r].result = "Ok")
      => \A e \in reqs[r].listed : ~(e.status = "pending" /\ e.late)

\* C5: a respond by the recipient that reads the Ping as pending after its
\* expiresAt has passed fails Expired and leaves it stored as expired with
\* respondedAt unset.
C5_RespondAfterExpiry ==
  \A r \in ReqIds :
    (Done(r, "respond") /\ reqs[r].saw = "pending" /\ reqs[r].late)
      => /\ reqs[r].result = "Expired"
         /\ reqs[r].post.status = "expired"
         /\ reqs[r].post.respondedAt = NoDate

\* C8: a cancel of a Ping that is accepted, declined or expired, or whose
\* expiresAt has passed, fails Forbidden and the record stays stored.
C8_CancelOnlyWhilePending ==
  \A r \in ReqIds :
    (Done(r, "cancel") /\ (reqs[r].saw \in Terminal \/ reqs[r].late))
      => /\ reqs[r].result = "Forbidden"
         /\ reqs[r].post = reqs[r].doc

C6_StaleDisconnectIsNoop ==
  [][\A h \in Handles :
        ( /\ sock[h].st = "open" /\ sock'[h].st = "closed"
          /\ Has(connectedUsers, sock[h].user)
          /\ connectedUsers[sock[h].user] # h )
        => /\ connectedUsers' = connectedUsers
           /\ timer' = timer
           /\ isOnline' = isOnline]_vars

\* C7: an offline timer that runs after its user has reconnected (the registry
\* holds a handle for the user) does not write isOnline = false.
C7_ReconnectWins ==
  \A h \in Handles :
    (timer[h].st \in {"skipped", "writing", "wrote"} /\ timer[h].reg)
      => timer[h].st = "skipped"

C7_Witness ==
  \E h1 \in Handles, h2 \in Handles :
    /\ h1 < h2 /\ sock[h1].user = sock[h2].user
    /\ sock[h1].st = "closed" /\ sock[h2].st = "open"
    /\ connectedUsers[sock[h2].user] = h2
    /\ timer[h1].st = "skipped" /\ timer[h1].reg
    /\ isOnline[sock[h2].user]

\* C11: a respond by a user who is not the recipient of the Ping it read (the
\* sender included) ends Forbidden, whatever the status and the expiry of the
\* Ping: the handler changes nothing on the document it holds and never
\* comes to a save.
C11_NonRecipientForbidden ==
  \A r \in ReqIds :
    (reqs[r].op = "respond" /\ reqs[r].saw # "none" /\ reqs[r].doc.recipient # reqs[r].user)
      => /\ reqs[r].pc \in {"r_check", "done"}
         /\ reqs[r].pc = "done" => reqs[r].result = "Forbidden"
         /\ reqs[r].doc.status = reqs[r].saw
         /\ reqs[r].post = NoDoc

\* The sender answers its own ping after the ping's expiresAt has passed.
C11_Witness ==
  \E r \in ReqIds :
    /\ Done(r, "respond") /\ reqs[r].result = "Forbidden"
    /\ reqs[r].user = reqs[r].doc.sender
    /\ reqs[r].target \in DOMAIN pings
    /\ pings[reqs[r].target] = reqs[r].doc
    /\ HasExpired(reqs[r].doc, now)

\* C12: a respond by the recipient that reads the Ping as accepted, declined
\* or expired ends AlreadyResolved, its answer names the status read, and the
\* handler never comes to a save.
C12_TerminalRespondAlreadyResolved ==
  \A r \in ReqIds :
    (reqs[r].op = "respond" /\ reqs[r].saw \in Terminal /\ reqs[r].doc.recipient = reqs[r].user)
      => /\ reqs[r].pc \in {"r_check", "done"}
         /\ reqs[r].pc = "done" => /\ reqs[r].result = "AlreadyResolved"
                                   /\ reqs[r].said = reqs[r].saw
         /\ reqs[r].doc.status = reqs[r].saw
         /\ reqs[r].post = NoDoc

\* A second respond by the recipient after its accept succeeded.
C12_Witness ==
  \E r1 \in ReqIds, r2 \in ReqIds :
    /\ r1 < r2 /\ reqs[r1].target = reqs[r2].target /\ reqs[r1].user = reqs[r2].user
    /\ Done(r1, "respond") /\ reqs[r1].result = "Ok" /\ reqs[r1].accept
    /\ Done(r2, "respond") /\ reqs[r2].result = "AlreadyResolved"
    /\ reqs[r2].saw = "accepted" /\ reqs[r2].said = "accepted"
    /\ Stored(pings, reqs[r2].target).status = "accepted"

LDone(r, op) == lreqs[r].op = op /\ lreqs[r].pc = "done"

\* C13: a nearby answer never holds a user who is in a block relation with
\* the requester, in either direction, when the query runs.
C13_NearbyExcludesBlocked ==
  \A r \in LReqIds :
    (LDone(r, "nearby") /\ lreqs[r].result = "Ok")
      => \A i \in DOMAIN lreqs[r].data : lreqs[r].data[i].id \notin lreqs[r].blk

\* C14: a nearby answer is in ascending order of distance, and entries of
\* equal distance are in ascending order of user id.
C14_NearbySorted ==
  \A r \in LReqIds :
    (LDone(r, "nearby") /\ lreqs[r].result = "Ok")
      => \A i \in DOMAIN lreqs[r].data, j \in DOMAIN lreqs[r].data :
           i < j => \/ lreqs[r].data[i].distance < lreqs[r].data[j].distance
                    \/ /\ lreqs[r].data[i].distance = lreqs[r].data[j].distance
                       /\ lreqs[r].data[i].id < lreqs[r].data[j].id

\* C15: a nearby request whose range is larger than the maximum is not
\* answered InvalidInput: only a range that is not positive is.
C15_LargeRadiusClamped ==
  \A r \in LReqIds :
    (LDone(r, "nearby") /\ lreqs[r].result = "InvalidInput") => lreqs[r].range <= 0

\* C16: no step of a request for nearby users changes any user's stored
\* location, lastActive or isOnline.
C16_NearbyNoSideEffects ==
  [][\A r \in LReqIds :
        (lreqs'[r] # lreqs[r] /\ lreqs'[r].op = "nearby")
          => /\ location' = location
             /\ lastActive' = lastActive
             /\ isOnline' = isOnline]_vars

\* C17: an update of location with coordinates that are off the map, through
\* the socket event, the HTTP endpoint or the location middleware, is answered
\* InvalidInput and leaves the caller's stored location as it was.
C17_OffMapRejected ==
  \A r \in LReqIds :
    (lreqs[r].op \in {"nearby", "location", "event"} /\ lreqs[r].pc # "idle"
       /\ lreqs[r].body.set /\ ~InRange(lreqs[r].body))
      => /\ lreqs[r].post = lreqs[r].prev
         /\ lreqs[r].pc = "done" => lreqs[r].result = "InvalidInput"

\* C18: an event of a personal room (incoming_ping, ping_response,
\* message_notification) reaches only sockets of users for whom connectedUsers
\* held an open socket when the handler emitted; an event for a user without
\* an entry reaches no socket.
C18_PersonalOnlyIfRegistered ==
  event.pc = "done" => \A h \in event.personal : sock[h].user \in event.lives

\* incoming_ping reaches the sockets of a registered receiver.
C18_Witness ==
  /\ event.kind = "send_ping" /\ event.pc = "done"
  /\ event.to \in event.lives
  /\ sock[event.from].user # event.to
  /\ event.personal # {}
  /\ \A h \in event.personal : sock[h].user = event.to

\* C19: new_message reaches exactly the sockets that are in the chat's room
\* when it is emitted, the emitting socket excepted.
C19_NewMessageToRoomButOrigin ==
  event.kind = "send_message"
    => /\ event.from \notin event.got
       /\ \A h \in Handles : h # event.from => (h \in event.got <=> h \in event.room)

\* The emitting socket is in the room with another socket, which receives.
C19_Witness ==
  /\ event.kind = "send_message"
  /\ event.from \in event.room
  /\ event.got # {}
  /\ event.got = event.room \ {event.from}

\* C20: message_notification reaches no socket that is in the chat's room:
\* a socket that received new_message receives no message_notification
\* for the same message.
C20_NotificationOnlyOutsideRoom ==
  (event.kind = "send_message" /\ event.pc = "done")
    => \A h \in event.personal : h \notin event.got /\ h \notin event.inroom

\* The sockets of user u have received a ping_response naming ping id with
\* status st.
ToldOf(u, id, st) ==
  /\ event.kind = "ping_response" /\ event.ping = id /\ event.response = st
  /\ \E h \in event.personal : sock[h].user = u

\* C21: when the recipient's accept or decline of a ping has succeeded and the
\* sender of the ping is connected, the sender's sockets eventually receive an
\* event that names the ping and its new status.
C21_SenderToldOfResponse ==
  \A r \in ReqIds :
    (Done(r, "respond") /\ reqs[r].result = "Ok" /\ Has(connectedUsers, reqs[r].doc.sender))
      ~> ToldOf(reqs[r].doc.sender, reqs[r].target, reqs[r].doc.status)

\* C22: no failure of a handler ends the server process: the process is
\* running in every reachable state.
C22_NoFailureStopsServer == Running

\* The stored pings in which u is the sender or the recipient.
PingsOf(u) == {i \in DOMAIN pings : pings[i].sender = u \/ pings[i].recipient = u}

\* C23: a GET /api/pings of user U that succeeds returns exactly the stored
\* pings in which U is the sender or the recipient.
C23_ListExactlyOwnPings ==
  [][\A r \in ReqIds :
       (reqs[r].pc # "done" /\ reqs'[r].pc = "done"
          /\ reqs'[r].op = "list" /\ reqs'[r].result = "Ok")
         => {e.id : e \in reqs'[r].listed} = PingsOf(reqs'[r].user)]_vars

\* C24: no stored ping has its sender as its recipient.
C24_NoSelfPing == \A i \in DOMAIN pings : pings[i].sender # pings[i].recipient

\* C25: a GET /api/radar/nearby of a user whose document still has the
\* location it was created with, and whose request carries no position that
\* is stored, is answered LocationUnavailable (when its range is valid).
C25_NeverLocatedUnavailable ==
  \A r \in LReqIds :
    (LDone(r, "nearby") /\ lreqs[r].prev = AtRegister /\ lreqs[r].mw = "skipped"
       /\ ValidRange(lreqs[r].range))
      => lreqs[r].result = "LocationUnavailable"

\* C26: the distance from a to b is the distance from b to a, and the distance
\* from a to a is 0, for all pairs of points.
C26_DistanceSymmetric ==
  \A r \in LReqIds :
    LDone(r, "distance") => /\ lreqs[r].data[1] = lreqs[r].data[2]
                            /\ lreqs[r].data[3] = 0

C26_Witness ==
  \E r \in LReqIds :
    /\ LDone(r, "distance")
    /\ lreqs[r].body.lat > 0 /\ lreqs[r].here.lat < lreqs[r].body.lat
    /\ lreqs[r].body.lon > lreqs[r].here.lon
    /\ lreqs[r].data[1] > 0
    /\ lreqs[r].data[1] = lreqs[r].data[2]

\* C27: an offline timer that was pending when its user connected again does
\* not set the user offline while the delay of a later disconnect of that
\* user is still running.
C27_ConnectCancelsTimers ==
  [][\A h \in Handles :
       (timer[h].st = "armed" /\ timer[h].recon /\ timer'[h].st = "writing")
         => \A g \in Handles :
              (sock[g].user = sock[h].user /\ timer[g].st = "armed") => timer[g].left = 0]_vars

\* C28: a user with an open socket connection is stored as online.
C28_ConnectedIsOnline ==
  \A h \in Handles : sock[h].st = "open" => isOnline[sock[h].user]

\* C29: when the socket the Map held for U has disconnected and U has not
\* connected since, no timer stores U as offline while the delay of that
\* disconnect is still running.
C29_OfflineNotBeforeDelay ==
  [][\A g \in Handles, h \in Handles :
       (/\ timer[g].st = "writing" /\ timer'[g].st = "wrote"
        /\ sock[h].user = sock[g].user
        /\ timer[h].st = "armed" /\ timer[h].cur /\ ~timer[h].recon)
         => timer[h].left = 0]_vars

\* C30: a send whose duplicate query runs when every pending ping between the
\* pair has passed its expiresAt is not refused as DuplicateActive.
C30_ExpiredPendingNotActive ==
  [][\A r \in ReqIds :
       (/\ reqs[r].pc = "s_find" /\ reqs'[r].pc # "s_find"
        /\ \A i \in ExistingPing(pings, reqs[r].user, reqs[r].target) :
             HasExpired(pings[i], now))
         => reqs'[r].result # "DuplicateActive"]_vars

\* C31: a stored ping carries respondedAt exactly when its status is accepted
\* or declined.
C31_RespondedAtIffDecided ==
  \A i \in DOMAIN pings :
    (pings[i].respondedAt # NoDate) <=> (pings[i].status \in {"accepted", "declined"})

\* C32: when the sender's cancel removes a pending ping, the store is as if
\* the ping had never been: its id names no document (a respond finds nothing,
\* no list holds it) and no pending ping stands between the pair, so that a
\* new send in either direction passes the duplicate test.
C32_CancelLeavesNoTrace ==
  [][\A r \in ReqIds :
       (/\ reqs[r].pc = "c_delete" /\ reqs'[r].pc = "done"
        /\ Stored(pings, reqs[r].target).status = "pending")
         => /\ reqs[r].target \notin DOMAIN pings'
            /\ ExistingPing(pings', reqs[r].doc.sender, reqs[r].doc.recipient) = {}
            /\ ExistingPing(pings', reqs[r].doc.recipient, reqs[r].doc.sender) = {}]_vars

\* A pending ping from s to r is stored.
PendingFromTo(s, r) ==
  \E i \in DOMAIN pings : /\ pings[i].sender = s /\ pings[i].recipient = r
                            /\ pings[i].status = "pending"

\* C33: incoming_ping is delivered to a user R with senderId S only while a
\* pending ping from S to R is stored.
C33_IncomingPingOnlyIfStored ==
  [][(event' # event /\ event'.kind = "send_ping" /\ event'.personal # {})
       => PendingFromTo(sock[event'.from].user, event'.to)]_vars

\* C34: ping_response naming ping p with status s is delivered to the sockets
\* of a user only if that user is the sender of p, the emitting socket is of
\* p's recipient, and p is stored with status s.
C34_PingResponseOnlyIfTrue ==
  [][(event' # event /\ event'.kind = "ping_response" /\ event'.personal # {})
       => /\ event'.ping \in DOMAIN pings
          /\ pings[event'.ping].sender = event'.to
          /\ pings[event'.ping].recipient = sock[event'.from].user
          /\ pings[event'.ping].status = event'.response]_vars

\* C35: new_message of a chat is delivered only to sockets of the chat's
\* participants, and only when the emitting socket is of a participant.
C35_NewMessageOnlyToParticipants ==
  (event.kind = "send_message" /\ event.got # {})
    => /\ event.chat \in DOMAIN chats
       /\ sock[event.from].user \in chats[event.chat]
       /\ \A h \in event.got : sock[h].user \in chats[event.chat]

\* C36: no two stored chats have the same pair of participants.
C36_OneChatPerPair ==
  \A c \in DOMAIN chats, d \in DOMAIN chats :
    (c # d /\ Cardinality(chats[c]) = 2) => chats[c] # chats[d]

\* C37: the bearing answered in a nearby result, rounded to a whole degree,
\* is at least 0 and less than 360.
C37_BearingBelow360 ==
  \A r \in LReqIds :
    LDone(r, "angle") => (lreqs[r].data[2] >= 0 /\ lreqs[r].data[2] < 360)

====
